---------------------------- MODULE Spec2Model ----------------------------
(***************************************************************************)
(* Zero-copy construction of FFI array handles from IPC bytes              *)
(* (src/src/ffi/mmap.rs) and the release protocol that tears the handle    *)
(* tree down again.                                                        *)
(*                                                                         *)
(* One construction is one call of mmap.  The call stack of the recursive  *)
(* descent get_array -> mmap_<type> -> get_array is the variable stack;    *)
(* every fallible statement of a builder is one step of the frame on top.  *)
(* An error (the ? operator) or a panic returns frame by frame, dropping   *)
(* each frame's locals.                                                    *)
(***************************************************************************)
EXTENDS Integers, Sequences, FiniteSets, TLC

(***************************************************************************)
(* Bounds of the model.                                                    *)
(***************************************************************************)
\* usize is UsizeBits wide; the wire integers (i64 in the code) are one bit
\* narrower in magnitude, as i64 is to a 64-bit usize.
UsizeBits == 6
\* length in bytes of the Source Bytes
DataLen == 16
\* entries of either queue that differ from the well-formed default
MaxFaults == 1
\* the calls of mmap on the same Source Bytes in one behaviour
MaxCalls == 2

UsizeMax == 2^UsizeBits - 1

\* std::ptr::null()
NULL == 0

(***************************************************************************)
(* Native types: size_of and align_of of the element types the typed       *)
(* buffers are cast to by bytemuck::try_cast_slice.                        *)
(***************************************************************************)
NativeTypes == {"u8", "i32", "i64", "days_ms"}

size_of(T) == CASE T = "u8" -> 1 [] T = "i32" -> 4 [] T = "i64" -> 8 [] T = "days_ms" -> 8

align_of(T) == CASE T = "u8" -> 1 [] T = "i32" -> 4 [] T = "i64" -> 8 [] T = "days_ms" -> 4

(***************************************************************************)
(* Error values.  A panic (todo!(), slice index, Option::unwrap, overflow  *)
(* check) is no Error value: it unwinds the same frames.                   *)
(***************************************************************************)
ExpectedBuffer == "ExpectedBuffer"
NegativeFooterLength == "NegativeFooterLength"
OutOfBounds == "buffer out of bounds"
Misaligned == "buffer not aligned for mmap"
TooSmall == "buffer's length is too small in mmap"
MissingDictionary == "Missing dictionary"
\* the Err of the conversion that ends mmap, whatever its kind
ConversionError == "conversion"
\* the Err of FixedSizeListArray::try_child_and_size
ExpectsPositiveSize == "FixedSizeBinaryArray expects a positive size"
Panic == "panic"
NoError == ""


(***************************************************************************)
(* State.                                                                  *)
(*   data, block_offset, data_type, ipc_field, dictionaries: the arguments *)
(*     of mmap, fixed during a behaviour.  data is [base, len]: the        *)
(*     address and the length of the Source Bytes.                         *)
(*   field_nodes, buffers: the two queues (VecDeque), passed by &mut.      *)
(*   stack: the call stack of get_array / mmap_<type> frames.              *)
(*   arrays: every ArrowArray built so far, by id (1..Len(arrays)), with   *)
(*     its private payload and its box.                                    *)
(*   strong_count: Arc::strong_count of the Source Bytes (0: freed).       *)
(*   dict_clones: live clones of looked-up dictionary arrays.              *)
(*   result: what the call of mmap returned, and what the caller did       *)
(*     with it.                                                            *)
(*   corrupted: how many entries of the message were changed before the    *)
(*     call.                                                               *)
(*   entry: the two queues as they were when mmap was called.              *)
(***************************************************************************)
VARIABLES data, block_offset, data_type, ipc_field, dictionaries,
          field_nodes, buffers, stack, arrays, strong_count, dict_clones,
          result, corrupted, entry

inputs == <<data, block_offset, data_type, ipc_field, dictionaries, corrupted, entry>>
vars == <<data, block_offset, data_type, ipc_field, dictionaries,
          field_nodes, buffers, stack, arrays, strong_count, dict_clones,
          result, corrupted, entry>>

(***************************************************************************)
(* Data types, by physical type.  elem is the native type T of a           *)
(* Primitive or the key type K of a Dictionary; fields are the child       *)
(* fields of a nested type; size is the declared size of a FixedSizeList   *)
(* (1 where a type has none).  A Dictionary's value type is not walked.    *)
(***************************************************************************)
DataType(phys, elem, fields) ==
    [phys |-> phys, elem |-> elem, fields |-> fields, size |-> 1]

\* DataType::FixedSizeList(field, size)
FixedSizeList(field, size) == [DataType("FixedSizeList", "u8", <<field>>) EXCEPT !.size = size]

\* IpcField { fields, dictionary_id: Option<i64> } (None is <<>>)
IpcField(fields, dictionary_id) == [fields |-> fields, dictionary_id |-> dictionary_id]

to_physical_type(dt) == dt.phys

(***************************************************************************)
(* usize arithmetic of a range block_offset + offset .. block_offset +     *)
(* offset + length.  With overflow checks the addition panics; without     *)
(* them it wraps.  Both builds exist, so an overflowing sum has both       *)
(* outcomes.                                                               *)
(***************************************************************************)
wrapping_add(a, b) == (a + b) % (UsizeMax + 1)

range(bo, offset, length) ==
    IF bo + offset + length <= UsizeMax
    THEN {[panic |-> FALSE, start |-> bo + offset, end |-> bo + offset + length]}
    ELSE {[panic |-> TRUE, start |-> 0, end |-> 0],
          [panic |-> FALSE, start |-> wrapping_add(bo, offset),
           end |-> wrapping_add(wrapping_add(bo, offset), length)]}

\* <[u8]>::get(start..end) is Some
slice_get(r) == r.start <= r.end /\ r.end <= data.len

\* <[u8]>::as_ptr of data[start..end]
as_ptr(r) == data.base + r.start

(***************************************************************************)
(* get_buffer_bounds: pops one descriptor.                                 *)
(***************************************************************************)
Bounds(err, q, offset, length) == [err |-> err, q |-> q, offset |-> offset, length |-> length]

get_buffer_bounds_mutant_no_sign_check(q) ==
    IF q = <<>> THEN Bounds(ExpectedBuffer, q, 0, 0)
    ELSE Bounds(NoError, Tail(q), Head(q).offset, Head(q).length)

get_buffer_bounds(q) ==
    IF q = <<>> THEN Bounds(ExpectedBuffer, q, 0, 0)
    ELSE IF Head(q).offset < 0 THEN Bounds(NegativeFooterLength, Tail(q), 0, 0)
    ELSE IF Head(q).length < 0 THEN Bounds(NegativeFooterLength, Tail(q), 0, 0)
    ELSE Bounds(NoError, Tail(q), Head(q).offset, Head(q).length)

(***************************************************************************)
(* bytemuck::try_cast_slice::<u8, T>: the number of T elements, or -1      *)
(* when the bytes are not aligned for T or are no whole number of T.       *)
(***************************************************************************)
try_cast_slice(ptr, len, T) ==
    IF align_of(T) > 1 /\ ptr % align_of(T) # 0 THEN -1
    ELSE IF size_of(T) = 1 THEN len
    ELSE IF len % size_of(T) = 0 THEN len \div size_of(T)
    ELSE -1

(***************************************************************************)
(* get_buffer::<T>: the outcomes [err, q, ptr] of resolving one typed      *)
(* buffer that must hold at least num_rows elements.                       *)
(***************************************************************************)
Got(err, q, ptr) == [err |-> err, q |-> q, ptr |-> ptr]

get_buffer_mutant_no_bounds_check(T, q, num_rows) ==
    LET b == get_buffer_bounds(q) IN
    IF b.err # NoError THEN {Got(b.err, b.q, NULL)}
    ELSE { IF r.panic THEN Got(Panic, b.q, NULL)
           ELSE IF try_cast_slice(as_ptr(r), r.end - r.start, T) < 0
                THEN Got(Misaligned, b.q, NULL)
           ELSE IF try_cast_slice(as_ptr(r), r.end - r.start, T) < num_rows
                THEN Got(TooSmall, b.q, NULL)
           ELSE Got(NoError, b.q, as_ptr(r))
         : r \in range(block_offset, b.offset, b.length) }

get_buffer_mutant_cast_truncates(T, q, num_rows) ==
    LET b == get_buffer_bounds(q) IN
    IF b.err # NoError THEN {Got(b.err, b.q, NULL)}
    ELSE { IF r.panic THEN Got(Panic, b.q, NULL)
           ELSE IF ~slice_get(r) THEN Got(OutOfBounds, b.q, NULL)
           ELSE IF as_ptr(r) % align_of(T) # 0
                THEN Got(Misaligned, b.q, NULL)
           ELSE IF (r.end - r.start) \div size_of(T) < num_rows
                THEN Got(TooSmall, b.q, NULL)
           ELSE Got(NoError, b.q, as_ptr(r))
         : r \in range(block_offset, b.offset, b.length) }

get_buffer(T, q, num_rows) ==
    LET b == get_buffer_bounds(q) IN
    IF b.err # NoError THEN {Got(b.err, b.q, NULL)}
    ELSE { IF r.panic THEN Got(Panic, b.q, NULL)
           ELSE IF ~slice_get(r) THEN Got(OutOfBounds, b.q, NULL)
           ELSE IF try_cast_slice(as_ptr(r), r.end - r.start, T) < 0
                THEN Got(Misaligned, b.q, NULL)
           ELSE IF try_cast_slice(as_ptr(r), r.end - r.start, T) < num_rows
                THEN Got(TooSmall, b.q, NULL)
           ELSE Got(NoError, b.q, as_ptr(r))
         : r \in range(block_offset, b.offset, b.length) }

(***************************************************************************)
(* get_validity: pops the validity descriptor; resolves it only when       *)
(* null_count > 0.  The pointer is NULL for None.                          *)
(***************************************************************************)
get_validity_mutant_always_resolved(q, null_count) ==
    LET b == get_buffer_bounds(q) IN
    IF b.err # NoError THEN {Got(b.err, b.q, NULL)}
    ELSE { IF r.panic THEN Got(Panic, b.q, NULL)
           ELSE IF ~slice_get(r) THEN Got(OutOfBounds, b.q, NULL)
           ELSE Got(NoError, b.q, as_ptr(r))
         : r \in range(block_offset, b.offset, b.length) }

get_validity(q, null_count) ==
    LET b == get_buffer_bounds(q) IN
    IF b.err # NoError THEN {Got(b.err, b.q, NULL)}
    ELSE IF null_count > 0
    THEN { IF r.panic THEN Got(Panic, b.q, NULL)
           ELSE IF ~slice_get(r) THEN Got(OutOfBounds, b.q, NULL)
           ELSE Got(NoError, b.q, as_ptr(r))
         : r \in range(block_offset, b.offset, b.length) }
    ELSE {Got(NoError, b.q, NULL)}

(***************************************************************************)
(* The packed-bit values of mmap_boolean: the descriptor is popped and     *)
(* the bytes are indexed, data_ref[start..end], which panics out of        *)
(* bounds.                                                                 *)
(***************************************************************************)
boolean_values(q) ==
    LET b == get_buffer_bounds(q) IN
    IF b.err # NoError THEN {Got(b.err, b.q, NULL)}
    ELSE { IF r.panic \/ ~slice_get(r) THEN Got(Panic, b.q, NULL)
           ELSE Got(NoError, b.q, as_ptr(r))
         : r \in range(block_offset, b.offset, b.length) }

(***************************************************************************)
(* The builders.  Each is the sequence of its fallible statements; a       *)
(* frame executes them in order and returns at the first that fails.       *)
(*   type        the child type(s) read off the data type                   *)
(*   node        length and null_count of the node, converted to usize     *)
(*   dictionary  dictionaries.get(ipc_field.dictionary_id.unwrap())        *)
(*   validity    get_validity                                              *)
(*   buffer      get_buffer::<T>(.., num_rows + plus)  (zero: 0 rows)      *)
(*   bits        the indexed values of mmap_boolean                        *)
(*   child       get_array of ipc_field.fields[0]                          *)
(*   children    get_array of every (field, ipc field) pair, collected     *)
(*   create      create_array, returned as Ok                              *)
(***************************************************************************)
Stmt(op) == [op |-> op, T |-> "u8", rows |-> "zero"]
Buffer(T, rows) == [op |-> "buffer", T |-> T, rows |-> rows]

mmap_null == <<Stmt("node"), Stmt("create")>>

mmap_boolean == <<Stmt("node"), Stmt("validity"), Stmt("bits"), Stmt("create")>>

mmap_primitive(P) == <<Stmt("node"), Stmt("validity"), Buffer(P, "rows"), Stmt("create")>>

mmap_binary(O) ==
    <<Stmt("node"), Stmt("validity"), Buffer(O, "rows+1"), Buffer("u8", "zero"), Stmt("create")>>

mmap_fixed_size_binary_mutant_rows ==
    <<Stmt("node"), Stmt("validity"), Buffer("u8", "rows"), Stmt("create")>>

mmap_fixed_size_binary ==
    <<Stmt("node"), Stmt("validity"), Buffer("u8", "rows+1"), Stmt("create")>>

mmap_list_mutant_child_first(O) ==
    <<Stmt("type"), Stmt("node"), Stmt("validity"), Stmt("child"), Buffer(O, "rows+1"),
      Stmt("create")>>

mmap_list(O) ==
    <<Stmt("type"), Stmt("node"), Stmt("validity"), Buffer(O, "rows+1"), Stmt("child"),
      Stmt("create")>>

mmap_fixed_size_list ==
    <<Stmt("type"), Stmt("node"), Stmt("validity"), Stmt("child"), Stmt("create")>>

mmap_struct ==
    <<Stmt("type"), Stmt("node"), Stmt("validity"), Stmt("children"), Stmt("create")>>

mmap_dict(K) ==
    <<Stmt("node"), Stmt("dictionary"), Stmt("validity"), Buffer(K, "rows"), Stmt("create")>>

\* the arms of the match in get_array; <<>> is the arm _ => todo!()
builder_mutant_default_is_null(dt) ==
    LET phys == to_physical_type(dt) IN
    CASE phys = "Null" -> mmap_null
      [] phys = "Boolean" -> mmap_boolean
      [] phys = "Primitive" -> mmap_primitive(dt.elem)
      [] phys \in {"Utf8", "Binary"} -> mmap_binary("i32")
      [] phys = "FixedSizeBinary" -> mmap_fixed_size_binary
      [] phys \in {"LargeBinary", "LargeUtf8"} -> mmap_binary("i64")
      [] phys = "List" -> mmap_list("i32")
      [] phys = "LargeList" -> mmap_list("i64")
      [] phys = "FixedSizeList" -> mmap_fixed_size_list
      [] phys = "Struct" -> mmap_struct
      [] phys = "Dictionary" -> mmap_dict(dt.elem)
      [] OTHER -> mmap_null

builder(dt) ==
    LET phys == to_physical_type(dt) IN
    CASE phys = "Null" -> mmap_null
      [] phys = "Boolean" -> mmap_boolean
      [] phys = "Primitive" -> mmap_primitive(dt.elem)
      [] phys \in {"Utf8", "Binary"} -> mmap_binary("i32")
      [] phys = "FixedSizeBinary" -> mmap_fixed_size_binary
      [] phys \in {"LargeBinary", "LargeUtf8"} -> mmap_binary("i64")
      [] phys = "List" -> mmap_list("i32")
      [] phys = "LargeList" -> mmap_list("i64")
      [] phys = "FixedSizeList" -> mmap_fixed_size_list
      [] phys = "Struct" -> mmap_struct
      [] phys = "Dictionary" -> mmap_dict(dt.elem)
      [] OTHER -> <<>>

(***************************************************************************)
(* Frames.  pc = 0: get_array has not yet popped its node; pc = i > 0:     *)
(* the builder is at its i-th statement.  err # NoError: the frame is      *)
(* returning Err(err) (or unwinding, err = Panic).                         *)
(***************************************************************************)
Frame(dt, ipc) ==
    [data_type |-> dt, ipc_field |-> ipc, pc |-> 0, err |-> NoError,
     node |-> [length |-> 0, null_count |-> 0], num_rows |-> 0, null_count |-> 0,
     ptrs |-> <<>>, values |-> <<>>, dictionary |-> <<>>]

Top == stack[Len(stack)]
SetTop(f) == [stack EXCEPT ![Len(stack)] = f]
Running == stack # <<>> /\ Top.err = NoError
stmt(f) == builder(f.data_type)[f.pc]
At(op) == Running /\ Top.pc > 0 /\ stmt(Top).op = op

fail(f, err) == [f EXCEPT !.err = err]
advance(f) == [f EXCEPT !.pc = f.pc + 1]

(***************************************************************************)
(* get_array, up to the match: pops the node of this data type.            *)
(***************************************************************************)
get_array_mutant_peek(f, q) ==
    IF q = <<>> THEN [frame |-> fail(f, ExpectedBuffer), q |-> q]
    ELSE [frame |-> IF builder(f.data_type) = <<>> THEN fail([f EXCEPT !.node = Head(q)], Panic)
                    ELSE advance([f EXCEPT !.node = Head(q)]),
          q |-> q]

get_array(f, q) ==
    IF q = <<>> THEN [frame |-> fail(f, ExpectedBuffer), q |-> q]
    ELSE [frame |-> IF builder(f.data_type) = <<>> THEN fail([f EXCEPT !.node = Head(q)], Panic)
                    ELSE advance([f EXCEPT !.node = Head(q)]),
          q |-> Tail(q)]

\* ListArray::<O>::try_get_child, FixedSizeListArray::try_child_and_size and
\* StructArray::try_get_fields: the Err of reading the child type(s) off a
\* data type whose physical type the match has already established.  Only a
\* FixedSizeList of size 0 is refused.
try_get_child(dt) == NoError
try_child_and_size(dt) == IF dt.size = 0 THEN ExpectsPositiveSize ELSE NoError
try_get_fields(dt) == NoError

\* the first statement of mmap_list, mmap_fixed_size_list and mmap_struct
child_type(f) ==
    LET phys == to_physical_type(f.data_type)
        err == CASE phys = "FixedSizeList" -> try_child_and_size(f.data_type)
                 [] phys = "Struct" -> try_get_fields(f.data_type)
                 [] OTHER -> try_get_child(f.data_type)
    IN IF err # NoError THEN fail(f, err) ELSE advance(f)

\* node.length().try_into() and node.null_count().try_into(), in this order
node_counts_mutant_null_count_clamped(f) ==
    IF f.node.length < 0 THEN fail(f, NegativeFooterLength)
    ELSE IF f.node.null_count < 0 THEN fail(f, NegativeFooterLength)
    ELSE advance([f EXCEPT !.num_rows = f.node.length,
                           !.null_count = IF f.node.null_count > f.node.length
                                          THEN f.node.length ELSE f.node.null_count])

node_counts(f) ==
    IF f.node.length < 0 THEN fail(f, NegativeFooterLength)
    ELSE IF f.node.null_count < 0 THEN fail(f, NegativeFooterLength)
    ELSE advance([f EXCEPT !.num_rows = f.node.length, !.null_count = f.node.null_count])

\* num_rows + 1 in the machine word: exact, or on overflow a panic (a build
\* with overflow checks) or the wrapped sum (a build without)
Rows(panic, rows) == [panic |-> panic, rows |-> rows]
plus_one(num_rows) ==
    IF num_rows + 1 <= UsizeMax THEN {Rows(FALSE, num_rows + 1)}
    ELSE {Rows(TRUE, 0), Rows(FALSE, wrapping_add(num_rows, 1))}

\* the num_rows argument of get_buffer
required(f) ==
    CASE stmt(f).rows = "rows" -> {Rows(FALSE, f.num_rows)}
      [] stmt(f).rows = "rows+1" -> plus_one(f.num_rows)
      [] OTHER -> {Rows(FALSE, 0)}

\* a resolved buffer: Err returns, Ok is the next buffer pointer
resolved(f, g) ==
    IF g.err # NoError THEN fail(f, g.err)
    ELSE advance([f EXCEPT !.ptrs = Append(f.ptrs, g.ptr)])

\* dictionaries.get(&ipc_field.dictionary_id.unwrap()).ok_or_else(..)?.clone()
lookup_dictionary_mutant_missing_tolerated(f) ==
    IF f.ipc_field.dictionary_id = <<>> THEN fail(f, Panic)
    ELSE advance([f EXCEPT !.dictionary = f.ipc_field.dictionary_id])

lookup_dictionary(f) ==
    IF f.ipc_field.dictionary_id = <<>> THEN fail(f, Panic)
    ELSE IF f.ipc_field.dictionary_id[1] \notin dictionaries THEN fail(f, MissingDictionary)
    ELSE advance([f EXCEPT !.dictionary = f.ipc_field.dictionary_id])

\* the pairs of children.iter().zip(ipc_field.fields.iter())
zipped(f) ==
    IF Len(f.data_type.fields) <= Len(f.ipc_field.fields)
    THEN Len(f.data_type.fields) ELSE Len(f.ipc_field.fields)

(***************************************************************************)
(* The heap: H = [arrays, strong_count, dict_clones].  An array is the     *)
(* ArrowArray struct with its PrivateData (private_data) and what the      *)
(* model counts about it: released (runs of its release callback),         *)
(* private_data.frees (times the payload was freed), boxed and box_frees   *)
(* (its Box::new / drop of that box), and the data type and node it was    *)
(* built for.                                                              *)
(***************************************************************************)
Heap == [arrays |-> arrays, strong_count |-> strong_count, dict_clones |-> dict_clones]

box(as, ids) == [i \in 1..Len(as) |->
                   IF \E k \in 1..Len(ids) : ids[k] = i
                   THEN [as[i] EXCEPT !.boxed = @ + 1] ELSE as[i]]

ArrowArray(f, owner, buffers_ptr, children_ptr, dictionary_ptr) ==
    [length |-> f.num_rows,
     null_count |-> f.null_count,
     offset |-> 0,
     n_buffers |-> Len(buffers_ptr),
     n_children |-> Len(children_ptr),
     buffers |-> buffers_ptr,
     children |-> children_ptr,
     dictionary |-> IF dictionary_ptr = <<>> THEN NULL ELSE dictionary_ptr[1],
     release |-> TRUE,
     private_data |-> [owner |-> owner, children_ptr |-> children_ptr,
                       dictionary_ptr |-> dictionary_ptr, frees |-> 0],
     released |-> 0, boxed |-> 0, box_frees |-> 0,
     data_type |-> f.data_type, node |-> f.node]

\* export_array_to_c (ffi, outside mmap.rs): an ArrowArray of its own that
\* owns the dictionary array, with no child of its own in this model
export_array_to_c(H, f) ==
    [H EXCEPT !.arrays = Append(@,
        ArrowArray([f EXCEPT !.data_type = DataType("Exported", "u8", <<>>)],
                   "Array", <<>>, <<>>, <<>>))]

create_array_mutant_no_dictionary(H, f, dictionary) ==
    [H EXCEPT !.arrays = Append(box(@, f.values \o dictionary),
                                ArrowArray(f, "Arc", f.ptrs, f.values, <<>>))]

create_array(H, f, dictionary) ==
    [H EXCEPT !.arrays = Append(box(@, f.values \o dictionary),
                                ArrowArray(f, "Arc", f.ptrs, f.values, dictionary))]

RECURSIVE release(_, _)
RECURSIVE drop_boxes(_, _)
RECURSIVE drop_arrays(_, _)

\* impl Drop for ArrowArray (ffi, outside mmap.rs): release, if still set
drop_ArrowArray(H, id) == IF H.arrays[id].release THEN release(H, id) ELSE H

\* drop of a Box<ArrowArray> resumed by Box::from_raw
drop_Box(H, id) ==
    LET H1 == drop_ArrowArray(H, id) IN [H1 EXCEPT !.arrays[id].box_frees = @ + 1]

drop_boxes(H, ids) ==
    IF ids = <<>> THEN H ELSE drop_boxes(drop_Box(H, Head(ids)), Tail(ids))

\* drop of a Vec<ArrowArray>
drop_arrays(H, ids) ==
    IF ids = <<>> THEN H ELSE drop_arrays(drop_ArrowArray(H, Head(ids)), Tail(ids))

\* drop of a PrivateData<T>: its owner T goes (an Arc of the Source Bytes, or
\* the exported dictionary array)
drop_PrivateData_mutant_data_leaked(H, id) ==
    [H EXCEPT !.arrays[id].private_data.frees = @ + 1,
              !.dict_clones = IF H.arrays[id].private_data.owner = "Array" THEN @ - 1 ELSE @]

drop_PrivateData(H, id) ==
    [H EXCEPT !.arrays[id].private_data.frees = @ + 1,
              !.strong_count = IF H.arrays[id].private_data.owner = "Arc" THEN @ - 1 ELSE @,
              !.dict_clones = IF H.arrays[id].private_data.owner = "Array" THEN @ - 1 ELSE @]

release_mutant_not_finalized(H, array) ==
    IF array = NULL THEN H
    ELSE LET private == H.arrays[array].private_data
             H1 == drop_boxes(H, private.children_ptr)
             H2 == IF private.dictionary_ptr # <<>>
                   THEN drop_Box(H1, private.dictionary_ptr[1]) ELSE H1
             H3 == [H2 EXCEPT !.arrays[array].released = @ + 1]
         IN  drop_PrivateData(H3, array)

release_mutant_children_leaked(H, array) ==
    IF array = NULL THEN H
    ELSE LET private == H.arrays[array].private_data
             H2 == IF private.dictionary_ptr # <<>>
                   THEN drop_Box(H, private.dictionary_ptr[1]) ELSE H
             H3 == [H2 EXCEPT !.arrays[array].release = FALSE,
                              !.arrays[array].released = @ + 1]
         IN  drop_PrivateData(H3, array)

release_mutant_dictionary_leaked(H, array) ==
    IF array = NULL THEN H
    ELSE LET private == H.arrays[array].private_data
             H1 == drop_boxes(H, private.children_ptr)
             H3 == [H1 EXCEPT !.arrays[array].release = FALSE,
                              !.arrays[array].released = @ + 1]
         IN  drop_PrivateData(H3, array)

release(H, array) ==
    IF array = NULL THEN H
    ELSE LET private == H.arrays[array].private_data
             H1 == drop_boxes(H, private.children_ptr)
             H2 == IF private.dictionary_ptr # <<>>
                   THEN drop_Box(H1, private.dictionary_ptr[1]) ELSE H1
             H3 == [H2 EXCEPT !.arrays[array].release = FALSE,
                              !.arrays[array].released = @ + 1]
         IN  drop_PrivateData(H3, array)

\* the locals a frame drops when it returns Err or unwinds: the children it
\* has collected, its clone of the dictionary, its Arc of the Source Bytes
drop_frame(H, f) ==
    LET H1 == drop_arrays(H, f.values)
        H2 == IF f.dictionary # <<>> THEN [H1 EXCEPT !.dict_clones = @ - 1] ELSE H1
    IN  [H2 EXCEPT !.strong_count = @ - 1]

(***************************************************************************)
(* Inputs.  A well-formed message for a data type holds one default node   *)
(* per type node and one default descriptor per buffer, in pre-order, and  *)
(* an IPC field tree of the same shape.  A behaviour starts from the       *)
(* well-formed message of a profile (the default node); before mmap is     *)
(* called at most MaxFaults entries are changed: a node or a descriptor    *)
(* replaced by any value of its alphabet, a queue one entry shorter or     *)
(* longer, an IPC field list one entry shorter or longer, a dictionary id  *)
(* changed or missing, or another block offset.                            *)
(***************************************************************************)
Node(length, null_count) == [length |-> length, null_count |-> null_count]
IpcBuffer(offset, length) == [offset |-> offset, length |-> length]

Profiles == {Node(1, 0), Node(1, 1), Node(0, 0)}
NodeValues == {Node(2, 3), Node(-1, 0), Node(1, -1), Node(UsizeMax, 0)}
DefaultBuffer == IpcBuffer(0, 16)
BufferValues == {IpcBuffer(0, 0), IpcBuffer(0, 4), IpcBuffer(0, 6), IpcBuffer(2, 8),
                 IpcBuffer(8, 16), IpcBuffer(-1, 8), IpcBuffer(0, -1)}
BlockOffsets == {8, UsizeMax - 7}
Bases == {64}
Dictionaries == {8}
DictionaryIds == {<<>>, <<7>>}

Leaves == {DataType("Null", "u8", <<>>), DataType("Boolean", "u8", <<>>),
           DataType("Primitive", "i32", <<>>), DataType("Primitive", "days_ms", <<>>),
           DataType("Utf8", "u8", <<>>), DataType("LargeBinary", "u8", <<>>),
           DataType("FixedSizeBinary", "u8", <<>>),
           DataType("Dictionary", "i32", <<>>), DataType("Union", "u8", <<>>)}
Primitive == DataType("Primitive", "i32", <<>>)
Boolean == DataType("Boolean", "u8", <<>>)
Dictionary == DataType("Dictionary", "i32", <<>>)
Union == DataType("Union", "u8", <<>>)
Nested(C) ==
    {DataType(p, "u8", <<c>>) : p \in {"List", "LargeList", "FixedSizeList", "Struct"}, c \in C}
Pairs == {<<Primitive, Boolean>>, <<Boolean, Dictionary>>, <<Dictionary, Primitive>>,
          <<Dictionary, Dictionary>>, <<Primitive, Union>>,
          <<DataType("List", "u8", <<Dictionary>>), Primitive>>,
          <<DataType("Struct", "u8", <<Primitive>>), Dictionary>>,
          <<DataType("FixedSizeList", "u8", <<Boolean>>), Boolean>>,
          <<Primitive, FixedSizeList(Boolean, 0)>>}
Schemas == Leaves \cup Nested(Leaves) \cup {DataType("Struct", "u8", <<>>)}
           \cup {DataType("Struct", "u8", fields) : fields \in Pairs}
           \cup {DataType("List", "u8", <<DataType("Struct", "u8", <<Union>>)>>)}
           \cup {FixedSizeList(Boolean, 0)}

RECURSIVE walk(_, _)
RECURSIVE ipc_of(_)
RECURSIVE ipc_faults(_, _)

\* the children a builder dispatches: fields[0] (none when the index
\* panics), or the zipped pairs
dispatched(dt, ipc) ==
    LET n == IF Len(dt.fields) <= Len(ipc.fields) THEN Len(dt.fields) ELSE Len(ipc.fields) IN
    IF \E i \in 1..Len(builder(dt)) : builder(dt)[i].op = "child" THEN (IF n >= 1 THEN 1 ELSE 0)
    ELSE IF \E i \in 1..Len(builder(dt)) : builder(dt)[i].op = "children" THEN n
    ELSE 0

\* the statements of a builder that pop a descriptor, for the node numbered n
pops(dt, n) ==
    LET b == builder(dt)
        P[i \in 0..Len(b)] ==
            IF i = 0 THEN <<>>
            ELSE IF b[i].op \in {"validity", "buffer", "bits"}
                 THEN Append(P[i - 1], [stmt |-> b[i], node |-> n])
                 ELSE P[i - 1]
    IN  P[Len(b)]

\* the pre-order walk get_array makes of a data type with no failure: the
\* (data type, IPC field) of every node it pops, and for every descriptor it
\* pops the statement that pops it and the number of its node
walk(dt, ipc) ==
    LET W[i \in 0..dispatched(dt, ipc)] ==
            IF i = 0
            THEN [nodes |-> <<[data_type |-> dt, ipc_field |-> ipc]>>, slots |-> pops(dt, 1)]
            ELSE LET c == walk(dt.fields[i], ipc.fields[i])
                     k == Len(W[i - 1].nodes)
                 IN  [nodes |-> W[i - 1].nodes \o c.nodes,
                      slots |-> W[i - 1].slots \o
                                [j \in 1..Len(c.slots) |->
                                    [c.slots[j] EXCEPT !.node = @ + k]]]
    IN  W[dispatched(dt, ipc)]

walk_nodes(dt, ipc) == Len(walk(dt, ipc).nodes)
walk_buffers(dt, ipc) == Len(walk(dt, ipc).slots)

\* the IPC field tree of a data type, every dictionary present
ipc_of(dt) ==
    IpcField([i \in 1..Len(dt.fields) |-> ipc_of(dt.fields[i])],
             IF to_physical_type(dt) = "Dictionary" THEN <<CHOOSE d \in Dictionaries : TRUE>> ELSE <<>>)

\* the IPC field trees one fault away from ipc
ipc_faults(dt, ipc) ==
    (IF to_physical_type(dt) = "Dictionary"
     THEN {[ipc EXCEPT !.dictionary_id = d] : d \in DictionaryIds \ {ipc.dictionary_id}}
     ELSE {})
    \cup (IF dt.fields # <<>>
          THEN {[ipc EXCEPT !.fields = Append(@, IpcField(<<>>, <<>>))]}
               \cup (IF ipc.fields # <<>>
                     THEN {[ipc EXCEPT !.fields = SubSeq(@, 1, Len(@) - 1)]} ELSE {})
          ELSE {})
    \cup UNION {{[ipc EXCEPT !.fields[i] = c] : c \in ipc_faults(dt.fields[i], ipc.fields[i])}
                : i \in 1..(IF Len(dt.fields) <= Len(ipc.fields)
                            THEN Len(dt.fields) ELSE Len(ipc.fields))}

Message(dt, ipc, nodes, bufs, bo) ==
    [data_type |-> dt, ipc_field |-> ipc, field_nodes |-> nodes, buffers |-> bufs,
     block_offset |-> bo]

well_formed(dt, profile) ==
    Message(dt, ipc_of(dt), [i \in 1..walk_nodes(dt, ipc_of(dt)) |-> profile],
            [i \in 1..walk_buffers(dt, ipc_of(dt)) |-> DefaultBuffer], 0)

\* the messages one fault away from m
faults(m) ==
    {[m EXCEPT !.field_nodes[i] = v] : i \in 1..Len(m.field_nodes), v \in NodeValues \cup Profiles}
    \cup {[m EXCEPT !.buffers[i] = v] : i \in 1..Len(m.buffers), v \in BufferValues}
    \cup {[m EXCEPT !.field_nodes = Append(@, Node(1, 0))],
          [m EXCEPT !.buffers = Append(@, DefaultBuffer)]}
    \cup (IF m.field_nodes # <<>>
          THEN {[m EXCEPT !.field_nodes = SubSeq(@, 1, Len(@) - 1)]} ELSE {})
    \cup (IF m.buffers # <<>>
          THEN {[m EXCEPT !.buffers = SubSeq(@, 1, Len(@) - 1)]} ELSE {})
    \cup {[m EXCEPT !.ipc_field = c] : c \in ipc_faults(m.data_type, m.ipc_field)}
    \cup {[m EXCEPT !.block_offset = bo] : bo \in BlockOffsets}

Init ==
    /\ \E dt \in Schemas, p \in Profiles :
        /\ data_type = dt
        /\ ipc_field = well_formed(dt, p).ipc_field
        /\ field_nodes = well_formed(dt, p).field_nodes
        /\ buffers = well_formed(dt, p).buffers
    /\ block_offset = 0
    /\ data \in {[base |-> b, len |-> DataLen] : b \in Bases}
    /\ dictionaries = Dictionaries
    /\ stack = <<>>
    /\ arrays = <<>>
    /\ strong_count = 1
    /\ dict_clones = 0
    /\ corrupted = 0
    /\ entry = [field_nodes |-> <<>>, buffers |-> <<>>]
    /\ result = [state |-> "idle", err |-> NoError, roots |-> <<>>, caller_holds |-> TRUE]

(***************************************************************************)
(* Actions.                                                                *)
(***************************************************************************)
SetHeap(H) ==
    /\ arrays' = H.arrays
    /\ strong_count' = H.strong_count
    /\ dict_clones' = H.dict_clones

\* before the call, the message is changed in one place
Corrupt ==
    /\ result.state = "idle"
    /\ corrupted < MaxFaults
    /\ \E m \in faults(Message(data_type, ipc_field, field_nodes, buffers, block_offset)) :
        /\ data_type' = m.data_type
        /\ ipc_field' = m.ipc_field
        /\ field_nodes' = m.field_nodes
        /\ buffers' = m.buffers
        /\ block_offset' = m.block_offset
    /\ corrupted' = corrupted + 1
    /\ UNCHANGED <<data, dictionaries, stack, arrays, strong_count, dict_clones, result, entry>>

\* mmap is called: the caller passes a clone of its Arc of the Source Bytes
Mmap ==
    /\ result.state = "idle"
    /\ result' = [result EXCEPT !.state = "running"]
    /\ stack' = <<Frame(data_type, ipc_field)>>
    /\ strong_count' = strong_count + 1
    /\ entry' = [field_nodes |-> field_nodes, buffers |-> buffers]
    /\ UNCHANGED <<data, block_offset, data_type, ipc_field, dictionaries, corrupted,
                   field_nodes, buffers, arrays, dict_clones>>

\* get_array pops its node and matches the physical type
GetArray ==
    /\ Running /\ Top.pc = 0
    /\ stack' = SetTop(get_array(Top, field_nodes).frame)
    /\ field_nodes' = get_array(Top, field_nodes).q
    /\ UNCHANGED <<inputs, buffers, arrays, strong_count, dict_clones, result>>

\* a nested builder reads its child type(s) off its data type
ChildType ==
    /\ At("type")
    /\ stack' = SetTop(child_type(Top))
    /\ UNCHANGED <<inputs, field_nodes, buffers, arrays, strong_count, dict_clones, result>>

\* a builder converts the length and the null count of its node
NodeCounts ==
    /\ At("node")
    /\ stack' = SetTop(node_counts(Top))
    /\ UNCHANGED <<inputs, field_nodes, buffers, arrays, strong_count, dict_clones, result>>

\* mmap_dict looks its dictionary up and clones it
LookupDictionary ==
    /\ At("dictionary")
    /\ stack' = SetTop(lookup_dictionary(Top))
    /\ dict_clones' = IF lookup_dictionary(Top).err = NoError THEN dict_clones + 1 ELSE dict_clones
    /\ UNCHANGED <<inputs, field_nodes, buffers, arrays, strong_count, result>>

GetValidity ==
    /\ At("validity")
    /\ \E g \in get_validity(buffers, Top.null_count) :
        /\ stack' = SetTop(resolved(Top, g))
        /\ buffers' = g.q
    /\ UNCHANGED <<inputs, field_nodes, arrays, strong_count, dict_clones, result>>

GetBuffer ==
    /\ At("buffer")
    /\ \E n \in required(Top) :
        IF n.panic
        THEN stack' = SetTop(fail(Top, Panic)) /\ UNCHANGED buffers
        ELSE \E g \in get_buffer(stmt(Top).T, buffers, n.rows) :
                /\ stack' = SetTop(resolved(Top, g))
                /\ buffers' = g.q
    /\ UNCHANGED <<inputs, field_nodes, arrays, strong_count, dict_clones, result>>

BooleanValues ==
    /\ At("bits")
    /\ \E g \in boolean_values(buffers) :
        /\ stack' = SetTop(resolved(Top, g))
        /\ buffers' = g.q
    /\ UNCHANGED <<inputs, field_nodes, arrays, strong_count, dict_clones, result>>

\* mmap_list, mmap_fixed_size_list: get_array(data.clone(), .., child,
\* &ipc_field.fields[0], ..); the index panics on an empty field list
CallChild ==
    /\ At("child")
    /\ IF Top.ipc_field.fields = <<>>
       THEN /\ stack' = SetTop(fail(Top, Panic))
            /\ UNCHANGED strong_count
       ELSE /\ stack' = Append(stack, Frame(Top.data_type.fields[1], Top.ipc_field.fields[1]))
            /\ strong_count' = strong_count + 1
    /\ UNCHANGED <<inputs, field_nodes, buffers, arrays, dict_clones, result>>

\* mmap_struct: the next pair of the zipped iterator, or the end of collect
CallChildren ==
    /\ At("children")
    /\ IF Len(Top.values) < zipped(Top)
       THEN /\ stack' = Append(stack, Frame(Top.data_type.fields[Len(Top.values) + 1],
                                            Top.ipc_field.fields[Len(Top.values) + 1]))
            /\ strong_count' = strong_count + 1
       ELSE /\ stack' = SetTop(advance(Top))
            /\ UNCHANGED strong_count
    /\ UNCHANGED <<inputs, field_nodes, buffers, arrays, dict_clones, result>>

\* what the caller frame does with Ok(array) of a child
accept(f, array) ==
    IF stmt(f).op = "child" THEN advance([f EXCEPT !.values = Append(f.values, array)])
    ELSE [f EXCEPT !.values = Append(f.values, array)]

\* the heap after the builder on top has run create_array (mmap_dict exports
\* its dictionary first)
built(H, f) ==
    IF f.dictionary # <<>>
    THEN create_array(export_array_to_c(H, f), f, <<Len(H.arrays) + 1>>)
    ELSE create_array(H, f, <<>>)

\* Ok(create_array(..)) of a builder: the array goes to the calling frame, or
\* to mmap, which hands it to the conversion
CreateArray ==
    /\ At("create")
    /\ SetHeap(built(Heap, Top))
    /\ IF Len(stack) = 1
       THEN /\ stack' = <<>>
            /\ result' = [result EXCEPT !.state = "built",
                                        !.roots = Append(@, Len(built(Heap, Top).arrays))]
       ELSE /\ stack' = [SubSeq(stack, 1, Len(stack) - 1) EXCEPT ![Len(stack) - 1] =
                            accept(@, Len(built(Heap, Top).arrays))]
            /\ UNCHANGED result
    /\ UNCHANGED <<inputs, field_nodes, buffers>>

\* what the caller frame does with Err(err) of a child (or with its panic):
\* the ? after get_array, or collect::<Result<Vec<_>, _>>() that ends at the
\* first Err
reject_mutant_child_error_dropped(f, err) ==
    IF stmt(f).op = "children" THEN f ELSE fail(f, err)

reject(f, err) == fail(f, err)

\* the ? operator (or the unwinding of a panic): the frame drops its locals
\* and its caller gets the same error
Propagate ==
    /\ stack # <<>> /\ Top.err # NoError
    /\ SetHeap(drop_frame(Heap, Top))
    /\ IF Len(stack) = 1
       THEN /\ stack' = <<>>
            /\ result' = [result EXCEPT !.state = IF Top.err = Panic THEN "panic" ELSE "Err",
                                        !.err = Top.err]
       ELSE /\ stack' = [SubSeq(stack, 1, Len(stack) - 1) EXCEPT ![Len(stack) - 1] =
                            reject(@, Top.err)]
            /\ UNCHANGED result
    /\ UNCHANGED <<inputs, field_nodes, buffers>>

\* the last statement of mmap: try_from(InternalArrowArray::new(array,
\* data_type)).  The conversion is no part of this module and may return
\* either way: Ok, and the array the caller gets owns the handle; or Err, and
\* the InternalArrowArray is dropped inside mmap, which releases the handle
TryFrom ==
    /\ result.state = "built"
    /\ \/ /\ result' = [result EXCEPT !.state = "Ok"]
          /\ UNCHANGED <<arrays, strong_count, dict_clones>>
       \/ /\ result' = [result EXCEPT !.state = "Err", !.err = ConversionError,
                                      !.roots = SubSeq(@, 1, Len(@) - 1)]
          /\ SetHeap(drop_ArrowArray(Heap, result.roots[Len(result.roots)]))
    /\ UNCHANGED <<inputs, field_nodes, buffers, stack>>

\* the consumer calls the release callback of a handle it owns, or of NULL
Release ==
    /\ result.state \in {"Ok", "Err", "panic"}
    /\ \E array \in {NULL} \cup {result.roots[i] : i \in 1..Len(result.roots)} :
        /\ array # NULL => arrays[array].release
        /\ SetHeap(release(Heap, array))
    /\ UNCHANGED <<inputs, field_nodes, buffers, stack, result>>

\* the caller drops its own Arc of the Source Bytes
DropCaller ==
    /\ result.state \in {"Ok", "Err", "panic"}
    /\ result.caller_holds
    /\ result' = [result EXCEPT !.caller_holds = FALSE]
    /\ strong_count' = strong_count - 1
    /\ UNCHANGED <<inputs, field_nodes, buffers, stack, arrays, dict_clones>>

Next ==
    \/ Corrupt
    \/ Mmap
    \/ GetArray
    \/ ChildType
    \/ NodeCounts
    \/ LookupDictionary
    \/ GetValidity
    \/ GetBuffer
    \/ BooleanValues
    \/ CallChild
    \/ CallChildren
    \/ CreateArray
    \/ Propagate
    \/ TryFrom
    \/ Release
    \/ DropCaller

Spec == Init /\ [][Next]_vars

(***************************************************************************)
(* Several calls on the same Source Bytes: the caller reads the same batch *)
(* again, with queues built anew from the same message, and gets a handle  *)
(* that is independent of those it already holds.                          *)
(***************************************************************************)
MmapAgain ==
    /\ result.state = "Ok"
    /\ result.caller_holds
    /\ Len(result.roots) < MaxCalls
    /\ result' = [result EXCEPT !.state = "running"]
    /\ stack' = <<Frame(data_type, ipc_field)>>
    /\ strong_count' = strong_count + 1
    /\ field_nodes' = entry.field_nodes
    /\ buffers' = entry.buffers
    /\ UNCHANGED <<inputs, arrays, dict_clones>>

NextCalls == Next \/ MmapAgain

SpecCalls == Init /\ [][NextCalls]_vars

(***************************************************************************)
(* What the claims speak of.                                               *)
(***************************************************************************)
Finished == result.state \in {"Ok", "Err", "panic"}
Failed(err) == result.state = "Err" /\ result.err = err /\ result.roots = <<>>

\* get_array has returned Ok: the tree is built, converted or not yet
Built == result.state \in {"built", "Ok"}
\* get_array has returned Ok and the conversion Err
Rejected == result.state = "Err" /\ result.err = ConversionError

PoppedNodes == Len(entry.field_nodes) - Len(field_nodes)
PoppedBuffers == Len(entry.buffers) - Len(buffers)

\* the walk of the arguments of this call
TheWalk == walk(data_type, ipc_field)

Negative(x) == x < 0
InExtent(d) ==
    d.offset >= 0 /\ d.length >= 0 /\ block_offset + d.offset + d.length <= data.len
BeyondExtent(d) ==
    d.offset >= 0 /\ d.length >= 0 /\ block_offset + d.offset + d.length > data.len

\* the handles of the tree below a handle, itself included
RECURSIVE Subtree(_)
Subtree(id) ==
    {id} \cup UNION {Subtree(arrays[id].children[i]) : i \in 1..Len(arrays[id].children)}
         \cup (IF arrays[id].dictionary = NULL THEN {} ELSE Subtree(arrays[id].dictionary))

RECURSIVE Depth(_)
Depth(dt) ==
    LET D[i \in 0..Len(dt.fields)] ==
            IF i = 0 THEN 0
            ELSE IF Depth(dt.fields[i]) > D[i - 1] THEN Depth(dt.fields[i]) ELSE D[i - 1]
    IN  1 + D[Len(dt.fields)]

(***************************************************************************)
(* The table of section 4.2 of the specification: per physical type the    *)
(* buffers (validity; typed: elements of T, at least rows + plus of them;  *)
(* bytes: at least rows + plus bytes; raw; bits) and the number of         *)
(* children, -1 for one per declared field.                                *)
(***************************************************************************)
Slot(kind, T, plus) == [kind |-> kind, T |-> T, plus |-> plus]
Validity == Slot("validity", "u8", 0)

Table(dt) ==
    LET phys == dt.phys IN
    CASE phys = "Null" -> [buffers |-> <<>>, children |-> 0]
      [] phys = "Boolean" -> [buffers |-> <<Validity, Slot("bits", "u8", 0)>>, children |-> 0]
      [] phys = "Primitive" ->
            [buffers |-> <<Validity, Slot("typed", dt.elem, 0)>>, children |-> 0]
      [] phys \in {"Binary", "Utf8"} ->
            [buffers |-> <<Validity, Slot("typed", "i32", 1), Slot("raw", "u8", 0)>>,
             children |-> 0]
      [] phys \in {"LargeBinary", "LargeUtf8"} ->
            [buffers |-> <<Validity, Slot("typed", "i64", 1), Slot("raw", "u8", 0)>>,
             children |-> 0]
      [] phys = "FixedSizeBinary" ->
            [buffers |-> <<Validity, Slot("typed", "u8", 1)>>, children |-> 0]
      [] phys = "List" -> [buffers |-> <<Validity, Slot("typed", "i32", 1)>>, children |-> 1]
      [] phys = "LargeList" ->
            [buffers |-> <<Validity, Slot("typed", "i64", 1)>>, children |-> 1]
      [] phys = "FixedSizeList" -> [buffers |-> <<Validity>>, children |-> 1]
      [] phys = "Struct" -> [buffers |-> <<Validity>>, children |-> Len(dt.fields)]
      [] phys = "Dictionary" ->
            [buffers |-> <<Validity, Slot("typed", dt.elem, 0)>>, children |-> 0]

Supported == {"Null", "Boolean", "Primitive", "Binary", "Utf8", "LargeBinary", "LargeUtf8",
              "FixedSizeBinary", "List", "LargeList", "FixedSizeList", "Struct", "Dictionary"}

\* a data type tree of supported types only, with an IPC field tree of its
\* shape whose dictionary ids are in the lookup
RECURSIVE WellShaped(_, _)
WellShaped(dt, ipc) ==
    /\ dt.phys \in Supported
    /\ Len(ipc.fields) = Len(dt.fields)
    /\ Len(dt.fields) = Table(dt).children
    /\ dt.phys = "Dictionary" =>
          ipc.dictionary_id # <<>> /\ ipc.dictionary_id[1] \in dictionaries
    /\ \A i \in 1..Len(dt.fields) : WellShaped(dt.fields[i], ipc.fields[i])

\* the nodes and the buffers the table asks for, in pre-order
RECURSIVE Expected(_)
Expected(dt) ==
    LET own == [nodes |-> <<dt>>,
                slots |-> [j \in 1..Len(Table(dt).buffers) |->
                              [slot |-> Table(dt).buffers[j], node |-> 1]]]
        E[i \in 0..Len(dt.fields)] ==
            IF i = 0 THEN own
            ELSE LET c == Expected(dt.fields[i])
                     k == Len(E[i - 1].nodes)
                 IN  [nodes |-> E[i - 1].nodes \o c.nodes,
                      slots |-> E[i - 1].slots \o
                                [j \in 1..Len(c.slots) |-> [c.slots[j] EXCEPT !.node = @ + k]]]
    IN  E[Len(dt.fields)]

\* a descriptor that is in bounds and, for a typed buffer, aligned, a whole
\* number of elements and large enough for the rows of its node
SlotOk(slot, node, d) ==
    /\ InExtent(d)
    /\ slot.kind = "typed" =>
          /\ (data.base + block_offset + d.offset) % align_of(slot.T) = 0
          /\ d.length % size_of(slot.T) = 0
          /\ d.length \div size_of(slot.T) >= node.length + slot.plus

\* the arguments of the call are mutually consistent
Consistent ==
    /\ WellShaped(data_type, ipc_field)
    /\ LET e == Expected(data_type) IN
        /\ Len(entry.field_nodes) >= Len(e.nodes)
        /\ Len(entry.buffers) >= Len(e.slots)
        /\ \A i \in 1..Len(e.nodes) :
              entry.field_nodes[i].length >= 0 /\ entry.field_nodes[i].null_count >= 0
        /\ \A j \in 1..Len(e.slots) :
              SlotOk(e.slots[j].slot, entry.field_nodes[e.slots[j].node], entry.buffers[j])

\* the counts and the pointers of a handle are those of the table
AsInTable(a) ==
    /\ a.n_buffers = Len(Table(a.data_type).buffers)
    /\ Len(a.buffers) = a.n_buffers
    /\ a.n_children = Table(a.data_type).children
    /\ Len(a.children) = a.n_children
    /\ \A i \in 1..Len(a.children) : arrays[a.children[i]].data_type = a.data_type.fields[i]
    /\ (a.data_type.phys = "Dictionary") = (a.dictionary # NULL)

\* every FixedSizeList of the tree declares a positive size
RECURSIVE PositiveSizes(_)
PositiveSizes(dt) ==
    /\ dt.phys = "FixedSizeList" => dt.size > 0
    /\ \A i \in 1..Len(dt.fields) : PositiveSizes(dt.fields[i])

\* get_array never fails, and every handle it builds is as in the table
BuildsTheTable ==
    /\ result.state \in {"running", "built", "Ok"} \/ Rejected
    /\ \A i \in 1..Len(stack) : stack[i].err = NoError
    /\ \A id \in 1..Len(arrays) :
          arrays[id].private_data.owner = "Arc" => AsInTable(arrays[id])
    /\ Built => Len(arrays[result.roots[1]].children) = Len(data_type.fields)

C2_BooleanValuesBeyondExtentIsAnError ==
    LET w == TheWalk IN
        Finished =>
            \A j \in 1..PoppedBuffers :
                (w.slots[j].stmt.op = "bits" /\ BeyondExtent(entry.buffers[j]))
                    => Failed(OutOfBounds)

\* C3: when a construction has returned an error, every handle built during
\* it has had its release run once, its payload freed once and its box (if it
\* was boxed) freed once, no dictionary clone is left, no handle was
\* returned, and the Source Bytes are referenced by the caller alone
C3_FailureLeaksNothing ==
    result.state = "Err" =>
        /\ result.roots = <<>> /\ stack = <<>>
        /\ \A id \in 1..Len(arrays) :
              /\ arrays[id].released = 1 /\ ~arrays[id].release
              /\ arrays[id].private_data.frees = 1
              /\ arrays[id].box_frees = arrays[id].boxed
        /\ dict_clones = 0
        /\ strong_count = IF result.caller_holds THEN 1 ELSE 0

C3_Witness ==
    /\ result.state = "Err"
    /\ data_type.phys = "Struct"
    /\ \E id \in 1..Len(arrays) : arrays[id].dictionary # NULL /\ arrays[id].boxed = 1
    /\ \E id \in 1..Len(arrays) : arrays[id].n_children = 1

\* C4: before the root is released nothing of its tree is; once its release
\* has run, the release of every handle of its subtree has run exactly once,
\* every payload was freed exactly once and every box exactly once
C4_ReleaseCascadesOnce ==
    Built =>
        LET root == result.roots[1] IN
        /\ Subtree(root) = 1..Len(arrays)
        /\ \A id \in Subtree(root) :
              /\ arrays[id].boxed = IF id = root THEN 0 ELSE 1
              /\ IF arrays[root].release
                 THEN /\ arrays[id].release /\ arrays[id].released = 0
                      /\ arrays[id].private_data.frees = 0 /\ arrays[id].box_frees = 0
                 ELSE /\ ~arrays[id].release /\ arrays[id].released = 1
                      /\ arrays[id].private_data.frees = 1
                      /\ arrays[id].box_frees = arrays[id].boxed
        /\ ~arrays[root].release => dict_clones = 0

C4_Witness ==
    /\ result.state = "Ok" /\ ~arrays[result.roots[1]].release
    /\ Depth(data_type) = 3
    /\ \E id \in 1..Len(arrays) : arrays[id].dictionary # NULL /\ arrays[id].boxed = 1
    /\ \A id \in 1..Len(arrays) : arrays[id].released = 1

\* a struct somewhere in the data type whose IPC field list has another
\* number of entries than the struct has fields
RECURSIVE StructMismatch(_, _)
StructMismatch(dt, ipc) ==
    \/ dt.phys = "Struct" /\ Len(ipc.fields) # Len(dt.fields)
    \/ \E i \in 1..Len(dt.fields) :
          i <= Len(ipc.fields) /\ StructMismatch(dt.fields[i], ipc.fields[i])

\* C5 as stated: a queue that does not hold exactly the entries the walk of
\* the schema requires (too few, or a surplus), or a struct whose IPC field
\* list has another length, makes the construction return an error
C5_MismatchIsAnError ==
    LET w == TheWalk IN
        (/\ Finished
         /\ \A i \in 1..PoppedNodes : w.nodes[i].data_type.phys \in Supported
         /\ \/ Len(entry.field_nodes) # walk_nodes(data_type, ipc_of(data_type))
            \/ Len(entry.buffers) # walk_buffers(data_type, ipc_of(data_type))
            \/ StructMismatch(data_type, ipc_field))
            => result.state = "Err" /\ result.roots = <<>>

\* C5 amended: a queue with fewer entries than the walk of the data type
\* (children zipped with the IPC fields) pops never yields a handle; a
\* construction that succeeds has popped exactly the entries of that walk
\* from the front of each queue and left the others as they were
C5_TooFewNeverBuildsAndSurplusStays ==
    /\ result.roots # <<>> => Built
    /\ Built =>
          LET w == TheWalk IN
          /\ Len(entry.field_nodes) >= Len(w.nodes)
          /\ Len(entry.buffers) >= Len(w.slots)
          /\ PoppedNodes = Len(w.nodes)
          /\ PoppedBuffers = Len(w.slots)
          /\ field_nodes = SubSeq(entry.field_nodes, PoppedNodes + 1, Len(entry.field_nodes))
          /\ buffers = SubSeq(entry.buffers, PoppedBuffers + 1, Len(entry.buffers))
          /\ data_type.phys = "Struct" =>
                Len(arrays[result.roots[1]].children) = zipped(Frame(data_type, ipc_field))

C5_Witness ==
    /\ Failed(ExpectedBuffer)
    /\ Len(entry.buffers) < walk_buffers(data_type, ipc_field)
    /\ Len(entry.field_nodes) = walk_nodes(data_type, ipc_field)
    /\ Len(arrays) >= 1

ExpectedNode == "ExpectedNode"

\* C6: a builder that needs a descriptor while the buffer queue is empty
\* fails with ExpectedBuffer, and get_array called for the root or for a
\* child while the node queue is empty fails with ExpectedNode
C6_ExhaustionIsReportedByKind ==
    /\ []((Finished /\ entry.field_nodes = <<>>) => Failed(ExpectedNode))
    /\ [][/\ (At("validity") \/ At("buffer") \/ At("bits")) /\ buffers = <<>>
              => stack' = SetTop(fail(Top, ExpectedBuffer))
          /\ (Running /\ Top.pc = 0 /\ field_nodes = <<>>)
              => stack' = SetTop(fail(Top, ExpectedNode))]_vars

\* the node of this data type is handed to a builder
Dispatched(dt) == builder(dt) # <<>>

\* the builder of this data type gets to convert the counts of its node
ReadsCounts(dt) == Dispatched(dt) /\ ~(dt.phys = "FixedSizeList" /\ dt.size = 0)

\* a negative value of a popped descriptor, or of a popped node whose data
\* type is one of Nodes, has made the construction fail with
\* NegativeFooterLength
NegativeFails(Nodes(_)) ==
    Finished =>
        LET w == TheWalk IN
        /\ \A j \in 1..PoppedBuffers :
              (Negative(entry.buffers[j].offset) \/ Negative(entry.buffers[j].length))
                  => Failed(NegativeFooterLength)
        /\ \A i \in 1..PoppedNodes :
              (/\ Nodes(w.nodes[i].data_type)
               /\ (Negative(entry.field_nodes[i].length)
                   \/ Negative(entry.field_nodes[i].null_count)))
                  => Failed(NegativeFooterLength)

\* a descriptor is popped only by a frame whose node has passed both checks
CountsBeforeDescriptors ==
    (result.state = "running" /\ buffers' # buffers) =>
        /\ Top.pc > 1
        /\ Top.num_rows = Top.node.length /\ Top.null_count = Top.node.null_count
        /\ ~Negative(Top.node.length) /\ ~Negative(Top.node.null_count)

SizeFailsFirst ==
    Finished =>
        LET w == TheWalk IN
        \A i \in 1..PoppedNodes :
            (Dispatched(w.nodes[i].data_type) /\ ~ReadsCounts(w.nodes[i].data_type))
                => Failed(ExpectsPositiveSize) /\ i = PoppedNodes

C8_SlopIsMisaligned ==
    LET w == TheWalk IN
        Finished =>
            \A j \in 1..PoppedBuffers :
                (/\ w.slots[j].stmt.op = "buffer"
                 /\ InExtent(entry.buffers[j])
                 /\ entry.buffers[j].length % size_of(w.slots[j].stmt.T) # 0)
                    => Failed(Misaligned)

C8_Witness ==
    LET w == TheWalk IN
        /\ Failed(Misaligned)
        /\ PoppedBuffers >= 1
        /\ w.slots[PoppedBuffers].stmt.op = "buffer"
        /\ InExtent(entry.buffers[PoppedBuffers])
        /\ entry.buffers[PoppedBuffers].length % size_of(w.slots[PoppedBuffers].stmt.T) # 0
        /\ entry.field_nodes[w.slots[PoppedBuffers].node].length = 0

\* C9: a dictionary node whose id is not in the lookup makes the
\* construction fail with MissingDictionary and return no handle; a
\* dictionary handle points to a handle of its own that owns the looked-up
\* array and is released when its parent is
C9_DictionaryIsLookedUp ==
    LET w == TheWalk IN
        /\ Finished =>
              \A i \in 1..PoppedNodes :
                  (/\ w.nodes[i].data_type.phys = "Dictionary"
                   /\ w.nodes[i].ipc_field.dictionary_id # <<>>
                   /\ w.nodes[i].ipc_field.dictionary_id[1] \notin dictionaries
                   /\ ~Negative(entry.field_nodes[i].length)
                   /\ ~Negative(entry.field_nodes[i].null_count))
                      => Failed(MissingDictionary)
        /\ \A id \in 1..Len(arrays) :
              arrays[id].data_type.phys = "Dictionary" =>
                  /\ arrays[id].dictionary \in 1..Len(arrays)
                  /\ arrays[id].dictionary # id
                  /\ arrays[arrays[id].dictionary].private_data.owner = "Array"
                  /\ arrays[arrays[id].dictionary].boxed = 1
                  /\ arrays[arrays[id].dictionary].release = arrays[id].release
                  /\ arrays[arrays[id].dictionary].released = arrays[id].released
                  /\ arrays[arrays[id].dictionary].private_data.frees = arrays[id].private_data.frees

C9_Witness ==
    /\ Failed(MissingDictionary)
    /\ \E id \in 1..Len(arrays) : arrays[id].dictionary # NULL /\ arrays[id].released = 1

\* C10: a data type with no builder, at the root or below, ends the
\* construction with a panic: no handle is returned, and no handle is ever
\* built for such a type
C10_UnsupportedTypeIsFatal ==
    LET w == TheWalk IN
        /\ Finished =>
              \A i \in 1..PoppedNodes :
                  w.nodes[i].data_type.phys \notin Supported
                      => result.state = "panic" /\ result.roots = <<>>
        /\ \A id \in 1..Len(arrays) :
              arrays[id].private_data.owner = "Arc" => arrays[id].data_type.phys \in Supported

C10_Witness ==
    LET w == TheWalk IN
        /\ result.state = "panic"
        /\ data_type.phys = "List"
        /\ PoppedNodes = 3
        /\ w.nodes[3].data_type.phys \notin Supported

\* the handles below a handle in pre-order, children only: the n-th is the
\* handle built for the n-th node of the walk
RECURSIVE PreOrder(_)
PreOrder(id) ==
    LET P[i \in 0..Len(arrays[id].children)] ==
            IF i = 0 THEN <<id>> ELSE P[i - 1] \o PreOrder(arrays[id].children[i])
    IN  P[Len(arrays[id].children)]

\* the handles of the returned tree, in pre-order
Handles == PreOrder(result.roots[1])

\* the descriptors, by their place in the buffer queue, that the walk w pops
\* for its n-th node
SlotsOf(w, n) ==
    LET S[j \in 0..Len(w.slots)] ==
            IF j = 0 THEN <<>>
            ELSE IF w.slots[j].node = n THEN Append(S[j - 1], j) ELSE S[j - 1]
    IN  S[Len(w.slots)]

\* C11: in the tree of a successful construction the k-th buffer pointer of
\* the handle of a node, when it is not null, together with the length of the
\* k-th descriptor popped for that node, lies within the Source Bytes
C11_PointersLieInTheSourceBytes ==
    Built =>
        LET w == TheWalk
            h == Handles
        IN  /\ Len(h) = Len(w.nodes)
            /\ \A n \in 1..Len(h) :
                  LET a == arrays[h[n]]
                      js == SlotsOf(w, n)
                  IN  /\ Len(a.buffers) = Len(js)
                      /\ \A k \in 1..Len(js) :
                            a.buffers[k] # NULL =>
                                /\ data.base <= a.buffers[k]
                                /\ a.buffers[k] + entry.buffers[js[k]].length
                                      <= data.base + data.len

C11_Witness ==
    /\ result.state = "Ok"
    /\ \E id \in 1..Len(arrays) :
          /\ Len(arrays[id].buffers) = 3
          /\ arrays[id].buffers[1] \notin {NULL, data.base}
          /\ arrays[id].buffers[2] = data.base
          /\ arrays[id].buffers[3] = data.base

\* C12: a frame pops a descriptor at its validity statement exactly when it
\* has popped none before, whatever the null count; and in the tree of a
\* successful construction every handle but a Null one has as its first
\* buffer the null pointer when its null_count is 0 and a pointer into the
\* Source Bytes when it is greater
C12_ValidityIsPoppedFirstAndExposedIfNulls ==
    /\ [](Built =>
            \A id \in 1..Len(arrays) :
                (arrays[id].private_data.owner = "Arc"
                 /\ arrays[id].data_type.phys # "Null") =>
                    /\ arrays[id].n_buffers >= 1
                    /\ IF arrays[id].null_count = 0
                       THEN arrays[id].buffers[1] = NULL
                       ELSE /\ arrays[id].buffers[1] # NULL
                            /\ arrays[id].buffers[1] \in data.base..(data.base + data.len))
    /\ [][(result.state = "running" /\ buffers' # buffers) =>
            /\ buffers' = Tail(buffers)
            /\ At("validity") <=> Top.ptrs = <<>>]_vars

C12_Witness ==
    /\ result.state = "Ok"
    /\ \E id \in 1..Len(arrays) :
          /\ arrays[id].null_count > 0 /\ arrays[id].n_buffers = 2
          /\ arrays[id].buffers[1] # NULL
    /\ \E id \in 1..Len(arrays) :
          /\ arrays[id].null_count = 0 /\ arrays[id].n_buffers = 2
          /\ arrays[id].buffers[1] = NULL

\* the nodes of a schema tree in pre-order, each struct field paired with
\* the IPC field of its place; the value type of a dictionary is no node
RECURSIVE SchemaNodes(_, _)
SchemaNodes(dt, ipc) ==
    LET n == IF Len(dt.fields) <= Len(ipc.fields) THEN Len(dt.fields) ELSE Len(ipc.fields)
        P[i \in 0..n] ==
            IF i = 0 THEN <<dt>> ELSE P[i - 1] \o SchemaNodes(dt.fields[i], ipc.fields[i])
    IN  P[n]

\* the number of descriptors of the nodes before the n-th, by the table
RECURSIVE BuffersBefore(_, _)
BuffersBefore(types, n) ==
    IF n = 1 THEN 0
    ELSE BuffersBefore(types, n - 1) + Len(Table(types[n - 1]).buffers)

\* C14 as stated: a successful construction pops exactly as many nodes as the
\* schema tree has
C14_PopsTheNodesOfTheSchema ==
    Built => PoppedNodes = Len(SchemaNodes(data_type, ipc_of(data_type)))

\* C14 amended: a successful construction pops one node per schema node that
\* is paired with an IPC field, the i-th popped for the i-th in pre-order,
\* and the descriptors of a node in the order of its buffers, before those
\* of its children; a node is popped by get_array before its builder runs,
\* a descriptor by a builder that has no child yet; the queues only lose
\* their head and what is left is a suffix of what was passed
C14_QueuesAreConsumedInPreOrder ==
    /\ [](Built =>
            LET types == SchemaNodes(data_type, ipc_field)
                h == Handles
            IN  /\ PoppedNodes = Len(types) /\ Len(h) = Len(types)
                /\ \A n \in 1..Len(h) :
                      LET a == arrays[h[n]]
                          before == BuffersBefore(types, n)
                      IN  /\ a.data_type = types[n]
                          /\ a.node = entry.field_nodes[n]
                          /\ \A k \in 1..Len(a.buffers) :
                                a.buffers[k] # NULL =>
                                    a.buffers[k] = data.base +
                                        wrapping_add(block_offset,
                                                     entry.buffers[before + k].offset))
    /\ [](result.state # "idle" =>
            /\ field_nodes = SubSeq(entry.field_nodes, PoppedNodes + 1, Len(entry.field_nodes))
            /\ buffers = SubSeq(entry.buffers, PoppedBuffers + 1, Len(entry.buffers)))
    /\ [][result.state # "idle" =>
            /\ field_nodes' # field_nodes =>
                  /\ field_nodes' = Tail(field_nodes) /\ buffers' = buffers
                  /\ Top.pc = 0
                  /\ stack'[Len(stack)].err = NoError =>
                        stack'[Len(stack)].node = Head(field_nodes)
            /\ buffers' # buffers =>
                  /\ buffers' = Tail(buffers) /\ field_nodes' = field_nodes
                  /\ Top.pc > 0 /\ Top.values = <<>>]_vars

C14_Witness ==
    /\ result.state = "Ok"
    /\ PoppedNodes = 4
    /\ \E id \in 1..Len(arrays) :
          /\ arrays[id].n_children = 1 /\ arrays[id].n_buffers = 2
          /\ arrays[id].boxed = 1
          /\ arrays[id].buffers[1] \notin {NULL, data.base}

\* the frame on top has failed and is returning its error
Failing == stack # <<>> /\ Top.err # NoError

\* C15: once a check has failed nothing more is popped from either queue, no
\* further frame is called and no further handle built, the error travels
\* unchanged from frame to frame and is the one returned; the handles built
\* before the failure are those of popped nodes only (a conversion that
\* fails after get_array has returned Ok is no check of the construction)
C15_StopsAtTheFirstFailure ==
    /\ []((result.state \in {"Err", "panic"} /\ ~Rejected) =>
            Cardinality({id \in 1..Len(arrays) : arrays[id].private_data.owner = "Arc"})
                < PoppedNodes \/ Len(arrays) = 0)
    /\ [][Failing =>
            /\ field_nodes' = field_nodes /\ buffers' = buffers
            /\ Len(stack') = Len(stack) - 1
            /\ Len(arrays') = Len(arrays)
            /\ stack' # <<>> => stack'[Len(stack')].err = Top.err
            /\ stack' = <<>> => result'.err = Top.err /\ result'.roots = <<>>]_vars

C15_Witness ==
    /\ result.state = "Err" /\ result.err = Misaligned
    /\ data_type.phys = "Struct" /\ Len(data_type.fields) = 2
    /\ data_type.fields[1].phys = "List"
    /\ PoppedNodes = 2 /\ PoppedBuffers = 3
    /\ Len(field_nodes) = 2 /\ Len(buffers) = 4

\* the handles built by create_array whose release has not run
Unreleased ==
    {id \in 1..Len(arrays) : arrays[id].private_data.owner = "Arc" /\ arrays[id].release}

\* C16: the reference count of the Source Bytes is the caller's reference,
\* one per call of get_array in progress and one per handle built by
\* create_array whose release has not run; a handle gives its reference back
\* exactly when its release runs, and the count is 0 only when the caller
\* and every handle have let go
C16_OneReferencePerUnreleasedHandle ==
    /\ strong_count = (IF result.caller_holds THEN 1 ELSE 0) + Len(stack)
                      + Cardinality(Unreleased)
    /\ \A id \in 1..Len(arrays) :
          arrays[id].private_data.frees = IF arrays[id].release THEN 0 ELSE 1
    /\ strong_count = 0 <=> (~result.caller_holds /\ Unreleased = {} /\ stack = <<>>)

C16_Witness ==
    /\ Len(result.roots) = 2
    /\ arrays[result.roots[1]].release /\ ~arrays[result.roots[2]].release
    /\ arrays[result.roots[1]].n_children = 2
    /\ ~result.caller_holds
    /\ strong_count = 4

\* the boxes a handle owns: its direct children and its dictionary
OwnBoxes(id) ==
    {arrays[id].children[i] : i \in 1..Len(arrays[id].children)}
        \cup (IF arrays[id].dictionary = NULL THEN {} ELSE {arrays[id].dictionary})

\* C17: release of a null handle changes nothing; a step in which release
\* runs on a root handle leaves that handle finalized, so that its drop does
\* nothing more, frees its payload and the boxes of its direct children and
\* of its dictionary once, leaves its own box alone, and changes no handle
\* outside its subtree, no queue and no input
C17_ReleaseTouchesItsOwnSubtreeOnly ==
    /\ [](release(Heap, NULL) = Heap)
    /\ [][\A r \in {result.roots[i] : i \in 1..Len(result.roots)} :
            arrays'[r].released = arrays[r].released + 1 =>
                /\ arrays[r].release /\ ~arrays'[r].release
                /\ drop_ArrowArray(Heap', r) = Heap'
                /\ arrays'[r].private_data.frees = arrays[r].private_data.frees + 1
                /\ arrays'[r].box_frees = arrays[r].box_frees
                /\ \A c \in OwnBoxes(r) : arrays'[c].box_frees = arrays[c].box_frees + 1
                /\ Len(arrays') = Len(arrays)
                /\ \A j \in 1..Len(arrays) : j \notin Subtree(r) => arrays'[j] = arrays[j]
                /\ UNCHANGED <<inputs, field_nodes, buffers, stack>>
                /\ result.state # "built" => UNCHANGED result]_vars

C17_Witness ==
    /\ Len(result.roots) = 2
    /\ arrays[result.roots[2]].released = 1 /\ ~arrays[result.roots[2]].release
    /\ arrays[result.roots[2]].n_children = 2
    /\ \A j \in Subtree(result.roots[1]) :
          arrays[j].release /\ arrays[j].box_frees = 0 /\ arrays[j].private_data.frees = 0
    /\ \A j \in Subtree(result.roots[2]) \ {result.roots[2]} : arrays[j].box_frees = 1

\* the slot of the table for the j-th descriptor the walk w pops
TableSlot(w, j) ==
    LET s == SlotsOf(w, w.slots[j].node)
        k == CHOOSE k \in 1..Len(s) : s[k] = j
    IN  Table(w.nodes[w.slots[j].node].data_type).buffers[k]

\* the j-th descriptor is that of a typed or raw buffer, in bounds and a
\* whole multiple of the size of its element type
Whole(w, j) ==
    /\ TableSlot(w, j).kind \in {"typed", "raw"}
    /\ InExtent(entry.buffers[j])
    /\ entry.buffers[j].length % size_of(TableSlot(w, j).T) = 0

Aligned(w, j) ==
    (data.base + block_offset + entry.buffers[j].offset) % align_of(TableSlot(w, j).T) = 0

Count(w, j) == entry.buffers[j].length \div size_of(TableSlot(w, j).T)

\* rows for values and indices, rows + 1 for offsets and for the bytes of
\* FixedSizeBinary, nothing for the raw values of Binary and Utf8
Need(w, j) ==
    IF TableSlot(w, j).kind = "raw" THEN 0
    ELSE entry.field_nodes[w.slots[j].node].length + TableSlot(w, j).plus

\* the count a builder that has popped the j-th descriptor has asked for:
\* the count needed, taken in the machine word
Asked(w, j) == Need(w, j) % (UsizeMax + 1)

\* C18 as stated: a typed buffer that is in bounds and a whole multiple of
\* its element size makes the construction fail with TooSmall exactly when
\* its element count is below the count required for it
C18_InBoundsWholeBufferIsTooSmallIffShort ==
    LET w == TheWalk IN
        Finished =>
            \A j \in 1..PoppedBuffers :
                Whole(w, j) =>
                    /\ Count(w, j) < Need(w, j) => Failed(TooSmall)
                    /\ (Failed(TooSmall) /\ j = PoppedBuffers) => Count(w, j) < Need(w, j)

\* C18: a typed buffer that is in bounds, a whole multiple of its element
\* size and at an address aligned for its element type makes the
\* construction fail with TooSmall exactly when its element count is below
\* the count its builder asks for, and TooSmall is reported for such a
\* buffer only; the count asked for is the count needed taken in the machine
\* word, and a builder whose rows + 1 exceeds the word either panics before
\* it pops the descriptor or pops it and does not find it too small
C18_AlignedWholeBufferIsTooSmallIffShort ==
    /\ [](Finished =>
            LET w == TheWalk IN
            /\ \A j \in 1..PoppedBuffers :
                  (Whole(w, j) /\ Aligned(w, j) /\ Count(w, j) < Asked(w, j))
                      => Failed(TooSmall)
            /\ Failed(TooSmall) =>
                  /\ PoppedBuffers >= 1
                  /\ Whole(w, PoppedBuffers) /\ Aligned(w, PoppedBuffers)
                  /\ Count(w, PoppedBuffers) < Asked(w, PoppedBuffers))
    /\ [][(At("buffer") /\ stmt(Top).rows = "rows+1" /\ Top.num_rows + 1 > UsizeMax) =>
            /\ stack'[Len(stack)].err # TooSmall
            /\ buffers' = buffers =>
                  stack'[Len(stack)].err \in {Panic, ExpectedBuffer}]_vars

C18_Witness ==
    LET w == TheWalk IN
        /\ Failed(TooSmall)
        /\ PoppedBuffers >= 2
        /\ w.nodes[w.slots[PoppedBuffers].node].data_type.phys = "FixedSizeBinary"
        /\ entry.field_nodes[w.slots[PoppedBuffers].node].length = 0
        /\ entry.buffers[PoppedBuffers].length = 0

\* C19: in the tree of a successful construction the handle of the i-th
\* node in pre-order has offset 0 and the length and the null count of the
\* i-th field node of the queue, whatever they are to each other
C19_CountsAreThoseOfTheNode ==
    Built =>
        LET h == Handles IN
            /\ Len(h) = PoppedNodes
            /\ \A i \in 1..Len(h) :
                  /\ arrays[h[i]].offset = 0
                  /\ arrays[h[i]].length = entry.field_nodes[i].length
                  /\ arrays[h[i]].null_count = entry.field_nodes[i].null_count

C19_Witness ==
    /\ result.state = "Ok"
    /\ LET h == Handles IN
          /\ Len(h) = 3
          /\ arrays[h[3]].null_count > arrays[h[3]].length
          /\ arrays[h[3]].length = 2 /\ arrays[h[1]].length = 1
          /\ arrays[h[3]].offset = 0

\* the j-th descriptor the walk w pops is one whose range is resolved
Resolved(w, j) ==
    \/ w.slots[j].stmt.op \in {"buffer", "bits"}
    \/ w.slots[j].stmt.op = "validity" /\ entry.field_nodes[w.slots[j].node].null_count > 0

\* C20 as stated: no construction succeeds on a descriptor whose range
\* block_offset + offset + length exceeds the greatest machine word, nor on
\* a typed buffer with fewer elements than rows + 1 taken without wrapping
C20_NoWrappedRangeOrCountIsAccepted ==
    LET w == TheWalk IN
        Built =>
            \A j \in 1..PoppedBuffers :
                /\ Resolved(w, j) =>
                      block_offset + entry.buffers[j].offset + entry.buffers[j].length
                          <= UsizeMax
                /\ TableSlot(w, j).kind = "typed" =>
                      entry.buffers[j].length \div size_of(TableSlot(w, j).T)
                          >= entry.field_nodes[w.slots[j].node].length + TableSlot(w, j).plus

=============================================================================
